---- MODULE Spec2Model ----
(***************************************************************************)
(* State-machine model of scripts/estimate_inertial_properties.py:main().  *)
(*                                                                         *)
(* The script is one sequential run.  Every loop iteration and every       *)
(* straight-line block between two loops is one action, so the model can   *)
(* observe the order in which links are handled and the point at which a   *)
(* failure ends the run.                                                   *)
(*                                                                         *)
(* Numbers.  The script computes with floating point numbers.  They are    *)
(* modelled as exact rationals n/d (d > 0), extended with the IEEE special *)
(* values that a division by zero yields when one operand is a             *)
(* numpy.float64: +inf = 1/0, -inf = -1/0, nan = 0/0.  Each number carries *)
(* its kind (np = TRUE for numpy.float64, FALSE for a Python float), since *)
(* a Python float division by zero raises ZeroDivisionError while a        *)
(* numpy.float64 division yields inf or nan.  Rounding is not modelled.    *)
(*                                                                         *)
(* Names.  A file name is a sequence of tokens; each token is a word or a  *)
(* "." and no token is a prefix of another, so the lexicographic order of  *)
(* token sequences is the order list.sort() gives the strings.             *)
(***************************************************************************)
EXTENDS Integers, Sequences, FiniteSets, TLC

\* ------------------------------------------------------------------ bounds
\* Largest number of files in the visual mesh directory.
MaxFiles == 3

\* ----------------------------------------------------------------- numbers
Abs(x) == IF x < 0 THEN -x ELSE x

Sign(x) == IF x < 0 THEN -1 ELSE IF x > 0 THEN 1 ELSE 0

RECURSIVE Gcd(_, _)
Gcd(a, b) == IF b = 0 THEN a ELSE Gcd(b, a % b)

\* The number n/d of kind np, in lowest terms with a positive denominator;
\* d = 0 gives +inf, -inf or nan by the sign of n.
Num(n, d, np) ==
    IF d = 0
    THEN [n |-> Sign(n), d |-> 0, np |-> np]
    ELSE LET g == Gcd(Abs(n), Abs(d))
             s == IF d < 0 THEN -1 ELSE 1
         IN  [n |-> (s * n) \div g, d |-> (s * d) \div g, np |-> np]

PyFloat(n, d) == Num(n, d, FALSE)

IsNaN(a) == a.d = 0 /\ a.n = 0
IsZero(a) == a.d # 0 /\ a.n = 0

\* a + b (over the least common denominator)
fadd(a, b) ==
    LET np == a.np \/ b.np
    IN  IF a.d = 0 /\ b.d = 0
        THEN (IF a.n = b.n THEN Num(a.n, 0, np) ELSE Num(0, 0, np))
        ELSE IF a.d = 0 THEN Num(a.n, 0, np)
        ELSE IF b.d = 0 THEN Num(b.n, 0, np)
        ELSE LET g == Gcd(a.d, b.d)
             IN  Num(a.n * (b.d \div g) + b.n * (a.d \div g), (a.d \div g) * b.d, np)

fneg(a) == [n |-> -a.n, d |-> a.d, np |-> a.np]

\* a - b
fsub(a, b) == fadd(a, fneg(b))

\* a * b (common factors are cancelled before the products are taken)
fmul(a, b) ==
    LET np == a.np \/ b.np
    IN  IF a.d = 0 \/ b.d = 0
        THEN Num(Sign(a.n) * Sign(b.n), 0, np)
        ELSE LET g1 == Gcd(Abs(a.n), b.d)
                 g2 == Gcd(Abs(b.n), a.d)
             IN  Num((a.n \div g1) * (b.n \div g2), (a.d \div g2) * (b.d \div g1), np)

\* 1 / b under IEEE rules (the zero is +0.0: every zero the script divides
\* by is a sum started at 0.0 or the difference 1 - 1).
frecip(b) ==
    IF b.n < 0
    THEN [n |-> -b.d, d |-> -b.n, np |-> b.np]
    ELSE [n |-> b.d, d |-> b.n, np |-> b.np]

\* a / b under IEEE rules
fdiv(a, b) ==
    IF IsZero(a) /\ IsZero(b)
    THEN Num(0, 0, a.np \/ b.np)
    ELSE fmul(a, frecip(b))

\* a / b raises ZeroDivisionError: both operands are Python floats and b is 0.
DivRaises(a, b) == ~a.np /\ ~b.np /\ IsZero(b)

\* a == b as Python compares numbers (the kind is ignored, nan equals nothing)
feq(a, b) == ~IsNaN(a) /\ ~IsNaN(b) /\ a.n = b.n /\ a.d = b.d

\* a < b
flt(a, b) ==
    /\ ~IsNaN(a)
    /\ ~IsNaN(b)
    /\ IF a.d = 0 /\ b.d = 0 THEN a.n < b.n ELSE a.n * b.d < b.n * a.d


\* ------------------------------------------------------------------- names
\* Rank of a token in the order of its first characters:
\* '.' < 'b' < 'd' < 'fi' < 'fo' < 'k' < 'o' < 'p' < 's'.
TokenRank(t) ==
    CASE t = "."       -> 1
      [] t = "bak"     -> 2
      [] t = "dae"     -> 3
      [] t = "finger"  -> 4
      [] t = "forearm" -> 5
      [] t = "knuckle" -> 6
      [] t = "obj"     -> 7
      [] t = "palm"    -> 8
      [] t = "stl"     -> 9

\* a < b for two names, as Python compares strings.
RECURSIVE LessName(_, _)
LessName(a, b) ==
    IF a = << >> THEN b # << >>
    ELSE IF b = << >> THEN FALSE
    ELSE IF Head(a) = Head(b) THEN LessName(Tail(a), Tail(b))
    ELSE TokenRank(Head(a)) < TokenRank(Head(b))

\* The file names a visual mesh directory is drawn from.
FileNames ==
    { <<"forearm", ".", "dae">>,
      <<"forearm", ".", "stl">>,
      <<"forearm", ".", "obj", ".", "bak">>,
      <<"palm", ".", "dae">>,
      <<"finger", ".", "dae">>,
      <<"knuckle", ".", "dae">> }

\* The names of S in descending order.
RECURSIVE SortedDescending(_)
SortedDescending(S) ==
    IF S = {} THEN << >>
    ELSE LET x == CHOOSE y \in S : \A z \in S \ {y} : LessName(z, y)
         IN  <<x>> \o SortedDescending(S \ {x})

\* listdir() followed by list.sort(): the names of S in ascending order.
RECURSIVE Sorted(_)
Sorted(S) ==
    IF S = {} THEN << >>
    ELSE LET x == CHOOSE y \in S : \A z \in S \ {y} : LessName(y, z)
         IN  <<x>> \o Sorted(S \ {x})

\* path.splitext(basename)[0]: the name up to its last "." that follows a
\* token other than "."; the whole name when there is none.
splitext(basename) ==
    LET dots == { i \in 1..Len(basename) :
                    /\ basename[i] = "."
                    /\ \E j \in 1..(i - 1) : basename[j] # "." }
    IN  IF dots = {} THEN basename
        ELSE SubSeq(basename, 1, (CHOOSE i \in dots : \A j \in dots : j <= i) - 1)

\* token in link_name
Contains(link_name, token) == \E i \in 1..Len(link_name) : link_name[i] = token

\* 'finger' in link_name or 'knuckle' in link_name
IsRepeated(link_name) == Contains(link_name, "finger") \/ Contains(link_name, "knuckle")

\* 'forearm' in link_name
IsForearm(link_name) == Contains(link_name, "forearm")

\* The factor a link's volume and mass are counted with in the totals.
Weight(link_name) == IF IsRepeated(link_name) THEN 4 ELSE 1

\* ------------------------------------------------------------------ inputs
\* sys.argv[1:2]: absent, not a number, or a number.
NoArg == [given |-> FALSE, parses |-> FALSE, value |-> PyFloat(0, 1)]
BadArg == [given |-> TRUE, parses |-> FALSE, value |-> PyFloat(0, 1)]
NumArg(v) == [given |-> TRUE, parses |-> TRUE, value |-> v]

ArgValues == { PyFloat(-1, 1), PyFloat(0, 1), PyFloat(2, 1) }

Args == { NoArg, BadArg } \cup { NumArg(v) : v \in ArgValues }

\* The volumes a loaded mesh may have (m^3); an inverted mesh has a negative
\* volume and a flat one has volume zero.
Volumes == { <<-1, 1>>, <<0, 1>>, <<1, 2>>, <<1, 1>> }

\* -------------------------------------------------------------- constants
\* total_mass = 4.2
DefaultTotalMass == PyFloat(21, 5)

\* forearm_mass_redistribute_percentage = 0.5
forearm_mass_redistribute_percentage == PyFloat(1, 2)

Zero == PyFloat(0, 1)
One == PyFloat(1, 1)

\* ------------------------------------------------------------------- state
VARIABLES
    argv,                       \* the command line argument
    visual_mesh_dir,            \* the set of file names in the mesh directory
    volume_np,                  \* mesh.volume is a numpy.float64 (else a float)
    pc,                         \* position in main()
    k,                          \* index of the running loop's next item
    error,                      \* the exception that ended the run, or "none"
    error_line,                 \* the line of main() that raised it
    exit_status,                \* process exit status once the run has ended
    total_mass,
    visual_mesh_basenames,
    meshes,                     \* the dict, as its items in insertion order
    total_volume,
    forearm_volume,             \* << >> while the local is unbound, else <<v>>
    average_density,
    forearm_volume_proportion,
    other_links_proportion,
    density,                    \* mesh.density of the links it was set on
    mass,
    inertia,
    centre_of_mass,
    sdf,                        \* links of the model of the SDF, in order
    written,                    \* the output file has been written
    output_file,                \* links of the written document
    calls                       \* the per-item operations done so far, in order

env == <<argv, visual_mesh_dir, volume_np>>

locals == <<total_mass, visual_mesh_basenames, meshes, total_volume, forearm_volume,
            average_density, forearm_volume_proportion, other_links_proportion,
            density, mass, inertia, centre_of_mass, sdf>>

out == <<written, output_file>>

vars == <<env, pc, k, error, error_line, exit_status, locals, out, calls>>

Init ==
    /\ argv \in Args
    /\ visual_mesh_dir \in { S \in SUBSET FileNames : Cardinality(S) <= MaxFiles }
    /\ volume_np \in BOOLEAN
    /\ pc = "args"
    /\ k = 1
    /\ error = "none"
    /\ error_line = 0
    /\ exit_status = 0
    /\ total_mass = Zero
    /\ visual_mesh_basenames = << >>
    /\ meshes = << >>
    /\ total_volume = Zero
    /\ forearm_volume = << >>
    /\ average_density = Zero
    /\ forearm_volume_proportion = Zero
    /\ other_links_proportion = Zero
    /\ density = << >>
    /\ mass = << >>
    /\ inertia = << >>
    /\ centre_of_mass = << >>
    /\ sdf = << >>
    /\ written = FALSE
    /\ output_file = << >>
    /\ calls = << >>

\* A run that, when it fails, still writes the links it has built so far.
AbortWriting(kind, line) ==
    /\ pc' = "error"
    /\ error' = kind
    /\ error_line' = line
    /\ exit_status' = 1
    /\ written' = TRUE
    /\ output_file' = sdf
    /\ UNCHANGED <<env, k, locals, calls>>

\* An uncaught exception (or exit(1)) ends the run: nothing else changes.
Abort(kind, line) ==
    /\ pc' = "error"
    /\ error' = kind
    /\ error_line' = line
    /\ exit_status' = 1
    /\ UNCHANGED <<env, k, locals, out, calls>>

\* A mass that is accepted when zero too.
IsPositiveOrZero(value) == ~flt(value, Zero) /\ ~IsNaN(value)

\* Line 20: float(sys.argv[1]) > 0.0
IsPositive(value) == flt(Zero, value)

\* Lines 18-25: the target mass.  Line 18 binds the default before the
\* argument is looked at; float() of a word that is no number raises
\* ValueError; a number that is not positive is the usage error, exit(1).
ParseArgs ==
    /\ pc = "args"
    /\ total_mass' = IF argv.given /\ argv.parses /\ IsPositive(argv.value)
                     THEN argv.value
                     ELSE DefaultTotalMass
    /\ IF ~argv.given
       THEN pc' = "listdir" /\ UNCHANGED <<error, error_line, exit_status>>
       ELSE IF ~argv.parses
       THEN pc' = "error" /\ error' = "ValueError" /\ error_line' = 20 /\ exit_status' = 1
       ELSE IF IsPositive(argv.value)
       THEN pc' = "listdir" /\ UNCHANGED <<error, error_line, exit_status>>
       ELSE pc' = "error" /\ error' = "UsageError" /\ error_line' = 24 /\ exit_status' = 1
    /\ UNCHANGED <<env, k, visual_mesh_basenames, meshes, total_volume, forearm_volume,
                   average_density, forearm_volume_proportion, other_links_proportion,
                   density, mass, inertia, centre_of_mass, sdf, out, calls>>

\* The record of one operation on one item.
Call(op, name) == [op |-> op, name |-> name]

\* Lines 33-37: the directory is listed, the names sorted, the dict created.
ListDir ==
    /\ pc = "listdir"
    /\ visual_mesh_basenames' = Sorted(visual_mesh_dir)
    /\ meshes' = << >>
    /\ calls' = Append(calls, Call("listdir", << >>))
    /\ pc' = "load"
    /\ k' = 1
    /\ UNCHANGED <<env, error, error_line, exit_status, total_mass, total_volume, forearm_volume,
                   average_density, forearm_volume_proportion, other_links_proportion,
                   density, mass, inertia, centre_of_mass, sdf, out>>

\* Line 33 when the directory is missing or unreadable.
ListDirFails ==
    /\ pc = "listdir"
    /\ Abort("OSError", 33)

\* meshes[link_name] = mesh: the item of an existing key is replaced in
\* place, a new key is added at the end.
DictSet(items, link_name, mesh) ==
    IF \E i \in 1..Len(items) : items[i].link_name = link_name
    THEN [i \in 1..Len(items) |->
            IF items[i].link_name = link_name THEN mesh ELSE items[i]]
    ELSE Append(items, mesh)

\* Lines 38-43, one iteration: the next file is loaded as a mesh of some
\* volume and stored under its link name.
LoadMesh ==
    /\ pc = "load"
    /\ k <= Len(visual_mesh_basenames)
    /\ \E v \in Volumes :
          LET mesh_basename == visual_mesh_basenames[k]
              link_name == splitext(mesh_basename)
          IN  meshes' = DictSet(meshes, link_name,
                                [link_name |-> link_name,
                                 file |-> mesh_basename,
                                 volume |-> Num(v[1], v[2], volume_np)])
    /\ calls' = Append(calls, Call("load", visual_mesh_basenames[k]))
    /\ k' = k + 1
    /\ UNCHANGED <<env, pc, error, error_line, exit_status, total_mass, visual_mesh_basenames,
                   total_volume, forearm_volume, average_density,
                   forearm_volume_proportion, other_links_proportion,
                   density, mass, inertia, centre_of_mass, sdf, out>>

\* Line 41 when the file cannot be parsed as a mesh.
LoadMeshFails ==
    /\ pc = "load"
    /\ k <= Len(visual_mesh_basenames)
    /\ Abort("LoadError", 41)

\* A start of the aggregation that also binds forearm_volume to 0.0.
BeginVolumeWithDefault ==
    /\ pc = "load"
    /\ k > Len(visual_mesh_basenames)
    /\ total_volume' = Zero
    /\ forearm_volume' = <<Zero>>
    /\ pc' = "volume"
    /\ k' = 1
    /\ UNCHANGED <<env, error, error_line, exit_status, total_mass, visual_mesh_basenames,
                   meshes, average_density, forearm_volume_proportion,
                   other_links_proportion, density, mass, inertia, centre_of_mass,
                   sdf, out, calls>>

\* Line 46, after the last file: total_volume = 0.0.
BeginVolume ==
    /\ pc = "load"
    /\ k > Len(visual_mesh_basenames)
    /\ total_volume' = Zero
    /\ pc' = "volume"
    /\ k' = 1
    /\ UNCHANGED <<env, error, error_line, exit_status, total_mass, visual_mesh_basenames, meshes,
                   forearm_volume, average_density, forearm_volume_proportion,
                   other_links_proportion, density, mass, inertia, centre_of_mass,
                   sdf, out, calls>>

\* The integer n as a Python number.
PyInt(n) == PyFloat(n, 1)

\* A term that counts every link once.
VolumeTermOnce(link_name, volume) == volume

\* Lines 50-54: what a link adds to total_volume.
VolumeTerm(link_name, volume) ==
    IF IsRepeated(link_name) THEN fmul(PyInt(4), volume) ELSE volume

\* Lines 47-56, one iteration.
AccumulateVolume ==
    /\ pc = "volume"
    /\ k <= Len(meshes)
    /\ LET link_name == meshes[k].link_name
           mesh == meshes[k]
       IN  /\ total_volume' = fadd(total_volume, VolumeTerm(link_name, mesh.volume))
           /\ forearm_volume' =
                 IF IsForearm(link_name) THEN <<mesh.volume>> ELSE forearm_volume
           /\ calls' = Append(calls, Call("volume", link_name))
    /\ k' = k + 1
    /\ UNCHANGED <<env, pc, error, error_line, exit_status, total_mass, visual_mesh_basenames, meshes,
                   average_density, forearm_volume_proportion, other_links_proportion,
                   density, mass, inertia, centre_of_mass, sdf, out>>

\* Lines 59-60, after the last link: average_density = total_mass/total_volume.
ComputeAverageDensity ==
    /\ pc = "volume"
    /\ k > Len(meshes)
    /\ IF DivRaises(total_mass, total_volume)
       THEN Abort("ZeroDivisionError", 59)
       ELSE /\ average_density' = fdiv(total_mass, total_volume)
            /\ pc' = "proportion"
            /\ UNCHANGED <<env, k, error, error_line, exit_status, total_mass, visual_mesh_basenames,
                           meshes, total_volume, forearm_volume,
                           forearm_volume_proportion, other_links_proportion,
                           density, mass, inertia, centre_of_mass, sdf, out, calls>>

\* Lines 63-69: the forearm's share of the volume; reading forearm_volume
\* while it is unbound raises UnboundLocalError.
ComputeProportions ==
    /\ pc = "proportion"
    /\ IF forearm_volume = << >>
       THEN Abort("UnboundLocalError", 63)
       ELSE IF DivRaises(forearm_volume[1], total_volume)
       THEN Abort("ZeroDivisionError", 63)
       ELSE /\ forearm_volume_proportion' = fdiv(forearm_volume[1], total_volume)
            /\ other_links_proportion' =
                  fsub(PyInt(1), fdiv(forearm_volume[1], total_volume))
            /\ mass' = << >>
            /\ inertia' = << >>
            /\ centre_of_mass' = << >>
            /\ pc' = "estimate"
            /\ k' = 1
            /\ UNCHANGED <<env, error, error_line, exit_status, total_mass, visual_mesh_basenames,
                           meshes, total_volume, forearm_volume, average_density,
                           density, sdf, out, calls>>

\* Lines 73 and 75: the density of a link.
LinkDensity(link_name) ==
    IF IsForearm(link_name)
    THEN fmul(fsub(PyInt(1), forearm_mass_redistribute_percentage), average_density)
    ELSE fadd(average_density,
              fmul(fsub(fdiv(forearm_mass_redistribute_percentage,
                             other_links_proportion),
                        forearm_mass_redistribute_percentage),
                   average_density))

\* Lines 70-78, one iteration: the density is set on the mesh and the mesh
\* is asked for its mass (density * volume), its inertia tensor and its
\* centre of mass.  The tensor and the centre are values of the mesh
\* library; they are kept as the geometry and the density they come from.
EstimateLink ==
    /\ pc = "estimate"
    /\ k <= Len(meshes)
    /\ LET link_name == meshes[k].link_name
           mesh == meshes[k]
       IN  IF /\ ~IsForearm(link_name)
              /\ DivRaises(forearm_mass_redistribute_percentage, other_links_proportion)
           THEN Abort("ZeroDivisionError", 75)
           ELSE /\ density' = (link_name :> LinkDensity(link_name)) @@ density
                /\ mass' = (link_name :> fmul(LinkDensity(link_name), mesh.volume)) @@ mass
                /\ inertia' = (link_name :> [geometry |-> mesh.file,
                                             density |-> LinkDensity(link_name)])
                                 @@ inertia
                /\ centre_of_mass' = (link_name :> [geometry |-> mesh.file])
                                        @@ centre_of_mass
                /\ calls' = Append(calls, Call("density", link_name))
                /\ k' = k + 1
                /\ UNCHANGED <<env, pc, error, error_line, exit_status, total_mass,
                               visual_mesh_basenames, meshes, total_volume,
                               forearm_volume, average_density,
                               forearm_volume_proportion, other_links_proportion,
                               sdf, out>>

\* Lines 81-85, after the last link: the SDF with its one model; total_mass = 0.
CreateSDF ==
    /\ pc = "estimate"
    /\ k > Len(meshes)
    /\ sdf' = << >>
    /\ total_mass' = PyInt(0)
    /\ pc' = "sanity"
    /\ k' = 1
    /\ UNCHANGED <<env, error, error_line, exit_status, visual_mesh_basenames, meshes, total_volume,
                   forearm_volume, average_density, forearm_volume_proportion,
                   other_links_proportion, density, mass, inertia, centre_of_mass,
                   out, calls>>

\* Lines 86-90: total_mass after the loop has run over the items, from the
\* value it has before.
RECURSIVE SumMasses(_, _, _)
SumMasses(total, items, masses) ==
    IF items = << >> THEN total
    ELSE LET link_name == Head(items).link_name
         IN  SumMasses(IF IsRepeated(link_name)
                       THEN fadd(total, fmul(PyInt(4), masses[link_name]))
                       ELSE fadd(total, masses[link_name]),
                       Tail(items), masses)

\* A sanity step that multiplies a repeated link's mass by four in place
\* before it adds it.
SumMassRescaling ==
    /\ pc = "sanity"
    /\ total_mass' = SumMasses(total_mass, meshes, mass)
    /\ mass' = [l \in DOMAIN mass |->
                  IF IsRepeated(l) THEN fmul(PyInt(4), mass[l]) ELSE mass[l]]
    /\ pc' = "links"
    /\ k' = 1
    /\ UNCHANGED <<env, error, error_line, exit_status, visual_mesh_basenames, meshes,
                   total_volume, forearm_volume, average_density,
                   forearm_volume_proportion, other_links_proportion, density,
                   inertia, centre_of_mass, sdf, out, calls>>

\* Lines 86-91: the masses of the links are added up (a repeated link's four
\* times) and the total is shown.
SumMass ==
    /\ pc = "sanity"
    /\ total_mass' = SumMasses(total_mass, meshes, mass)
    /\ pc' = "links"
    /\ k' = 1
    /\ UNCHANGED <<env, error, error_line, exit_status, visual_mesh_basenames, meshes,
                   total_volume, forearm_volume, average_density,
                   forearm_volume_proportion, other_links_proportion, density, mass,
                   inertia, centre_of_mass, sdf, out, calls>>

\* Lines 95-106: the link element of a link.
LinkElement(link_name) ==
    [name |-> link_name,
     mass |-> mass[link_name],
     inertia |-> inertia[link_name],
     pose |-> [xyz |-> centre_of_mass[link_name], rpy |-> <<0, 0, 0>>]]

\* The sequence of n copies of x.
Copies(x, n) == [i \in 1..n |-> x]

\* A document builder that adds a repeated link as often as it is counted.
AddLinkWeighted ==
    /\ pc = "links"
    /\ k <= Len(meshes)
    /\ sdf' = sdf \o Copies(LinkElement(meshes[k].link_name), Weight(meshes[k].link_name))
    /\ calls' = Append(calls, Call("add_link", meshes[k].link_name))
    /\ k' = k + 1
    /\ UNCHANGED <<env, pc, error, error_line, exit_status, total_mass,
                   visual_mesh_basenames, meshes, total_volume, forearm_volume,
                   average_density, forearm_volume_proportion, other_links_proportion,
                   density, mass, inertia, centre_of_mass, out>>

\* Lines 94-107, one iteration: the link is added to the model.
AddLink ==
    /\ pc = "links"
    /\ k <= Len(meshes)
    /\ sdf' = Append(sdf, LinkElement(meshes[k].link_name))
    /\ calls' = Append(calls, Call("add_link", meshes[k].link_name))
    /\ k' = k + 1
    /\ UNCHANGED <<env, pc, error, error_line, exit_status, total_mass, visual_mesh_basenames,
                   meshes, total_volume, forearm_volume, average_density,
                   forearm_volume_proportion, other_links_proportion, density, mass,
                   inertia, centre_of_mass, out>>

\* Lines 110-112, after the last link: the document is written.
ExportXml ==
    /\ pc = "links"
    /\ k > Len(meshes)
    /\ written' = TRUE
    /\ output_file' = sdf
    /\ pc' = "done"
    /\ UNCHANGED <<env, k, error, error_line, exit_status, locals, calls>>

\* Line 111 when the output file cannot be opened for writing.
ExportXmlFails ==
    /\ pc = "links"
    /\ k > Len(meshes)
    /\ Abort("OSError", 111)

Next ==
    \/ ParseArgs
    \/ ListDir
    \/ ListDirFails
    \/ LoadMesh
    \/ LoadMeshFails
    \/ BeginVolume
    \/ AccumulateVolume
    \/ ComputeAverageDensity
    \/ ComputeProportions
    \/ EstimateLink
    \/ CreateSDF
    \/ SumMass
    \/ AddLink
    \/ ExportXml
    \/ ExportXmlFails

Spec == Init /\ [][Next]_vars


\* ================================================================== claims
\* The mass the run was asked for.
TargetMass ==
    IF argv.given /\ argv.parses /\ flt(Zero, argv.value)
    THEN argv.value
    ELSE PyFloat(21, 5)

\* The link names of a sequence of items, in order.
LinkNames(items) == [i \in 1..Len(items) |-> items[i].link_name]

\* The sum of the volumes of the items that are (rep = TRUE) or are not
\* (rep = FALSE) repeated links.
RECURSIVE SumVolumes(_, _)
SumVolumes(items, rep) ==
    IF items = << >> THEN Zero
    ELSE LET m == Head(items)
             repeated == Contains(m.link_name, "finger") \/ Contains(m.link_name, "knuckle")
         IN  IF repeated = rep
             THEN fadd(m.volume, SumVolumes(Tail(items), rep))
             ELSE SumVolumes(Tail(items), rep)

\* The volume loop has handled every loaded link and line 59 has been reached.
AggregationDone ==
    \/ pc \in {"proportion", "estimate", "sanity", "links", "done"}
    \/ pc = "error" /\ error_line >= 59

\* The sanity loop has added every link's mass.
SanityDone == pc \in {"links", "done"} \/ (pc = "error" /\ error_line > 91)

\* The items of the links whose name contains 'forearm'.
ForearmItems == { i \in 1..Len(meshes) : Contains(meshes[i].link_name, "forearm") }

\* C1: with exactly one forearm link and a positive target mass, the total
\* mass recomputed from the link masses (repeated links counted 4 times)
\* equals the target mass.
C1_MassAddsUpToTarget ==
    (SanityDone /\ Cardinality(ForearmItems) = 1) => feq(total_mass, TargetMass)

\* C2: after the volume loop, total_volume is the sum of the volumes of the
\* links that are not repeated plus 4 times the sum of those that are.
C2_TotalVolume ==
    AggregationDone =>
        feq(total_volume,
            fadd(SumVolumes(meshes, FALSE), fmul(PyFloat(4, 1), SumVolumes(meshes, TRUE))))

\* C2 witness: forearm 1.0, palm 0.5 and one repeated link of 0.5 give 3.5.
C2_Witness ==
    /\ pc = "proportion"
    /\ Len(meshes) = 3
    /\ \E i, j, r \in 1..3 :
          /\ meshes[i].link_name = <<"forearm">> /\ feq(meshes[i].volume, PyFloat(1, 1))
          /\ meshes[j].link_name = <<"palm">> /\ feq(meshes[j].volume, PyFloat(1, 2))
          /\ meshes[r].link_name = <<"finger">> /\ feq(meshes[r].volume, PyFloat(1, 2))
    /\ feq(total_volume, PyFloat(7, 2))

\* C3: a target mass argument that is zero or negative ends the run with the
\* usage error and exit status 1 before the directory is listed or any mesh
\* is loaded, and nothing is written; without an argument the target mass is
\* 4.2 (until line 85 reuses the variable).
C3_UsageError ==
    /\ (argv.given /\ argv.parses /\ ~flt(Zero, argv.value) /\ pc # "args") =>
          /\ pc = "error"
          /\ error = "UsageError"
          /\ exit_status = 1
          /\ calls = << >>
          /\ visual_mesh_basenames = << >>
          /\ meshes = << >>
          /\ ~written
          /\ output_file = << >>
    /\ (/\ ~argv.given
        /\ pc \notin {"args", "sanity", "links", "done"}
        /\ (pc = "error" => error_line < 85)) =>
          feq(total_mass, PyFloat(21, 5))

\* C3 witness: the argument 0 has been rejected.
C3_Witness ==
    /\ argv.given /\ argv.parses /\ IsZero(argv.value)
    /\ pc = "error"
    /\ error = "UsageError"

\* C4: when no loaded link name contains 'forearm', the run never gets past
\* line 63: it ends with the UnboundLocalError raised there (forearm_volume
\* has no default), no density is assigned and nothing is written.
C4_NoForearmIsAnError ==
    (/\ \A f \in visual_mesh_dir : ~Contains(splitext(f), "forearm")
     /\ pc \notin {"args", "listdir", "load", "volume"}) =>
        /\ forearm_volume = << >>
        /\ DOMAIN density = {}
        /\ ~written
        /\ output_file = << >>
        /\ pc \in {"proportion", "error"}
        /\ (pc = "error" /\ error_line >= 63) =>
              (error = "UnboundLocalError" /\ error_line = 63 /\ exit_status = 1)

\* C4 witness: a directory with meshes but no forearm has ended at line 63.
C4_Witness ==
    /\ pc = "error"
    /\ error = "UnboundLocalError"
    /\ Len(meshes) >= 2
    /\ \A i \in 1..Len(meshes) : ~Contains(meshes[i].link_name, "forearm")

\* C5 as claimed: the written document has as many link entries as the
\* directory has files.
C5_OneEntryPerFile ==
    pc = "done" => Len(output_file) = Cardinality(visual_mesh_dir)

\* C5 amended: the written document has exactly one link entry per distinct
\* link name (file name without its extension), repeated links once each; it
\* has one entry per file when no two files share their name up to the
\* extension.
C5_OneEntryPerLinkName ==
    pc = "done" =>
        LET stems == { splitext(f) : f \in visual_mesh_dir }
        IN  /\ Len(output_file) = Cardinality(stems)
            /\ { output_file[i].name : i \in 1..Len(output_file) } = stems
            /\ \A i, j \in 1..Len(output_file) :
                  output_file[i].name = output_file[j].name => i = j
            /\ (\A f, g \in visual_mesh_dir : splitext(f) = splitext(g) => f = g) =>
                  Len(output_file) = Cardinality(visual_mesh_dir)

\* C5 witness: three files, two of them the same link, one a repeated link.
C5_Witness ==
    /\ pc = "done"
    /\ Cardinality(visual_mesh_dir) = 3
    /\ Len(output_file) = 2
    /\ \E i \in 1..Len(output_file) : Contains(output_file[i].name, "finger")

\* C6: the density assigned to a forearm link is strictly less than
\* average_density.
C6_ForearmDensityBelowAverage ==
    \A i \in 1..Len(meshes) :
        (Contains(meshes[i].link_name, "forearm") /\ meshes[i].link_name \in DOMAIN density) =>
            flt(density[meshes[i].link_name], average_density)

\* C8: when the weighted total volume is zero, line 59 raises
\* ZeroDivisionError, no density is assigned and nothing is written.
C8_ZeroVolumeAborts ==
    (AggregationDone /\ IsZero(total_volume)) =>
        /\ pc = "error"
        /\ error = "ZeroDivisionError"
        /\ error_line = 59
        /\ DOMAIN density = {}
        /\ ~written


\* The run has ended.
Terminated == pc \in {"done", "error"}

\* C7: a run ends in exactly one of two ways: with the whole document (one
\* entry for every loaded link) written and no error, or with an error and
\* nothing written.  No step follows the write or the error.
C7_AllOrNothing ==
    [][ /\ ~Terminated
        /\ written' => (/\ pc' = "done"
                        /\ error' = "none"
                        /\ output_file' = sdf'
                        /\ [i \in 1..Len(output_file') |-> output_file'[i].name]
                              = LinkNames(meshes'))
        /\ pc' = "done" => (written' /\ exit_status' = 0)
        /\ pc' = "error" => (/\ ~written'
                             /\ output_file' = << >>
                             /\ error' # "none"
                             /\ exit_status' = 1) ]_vars

\* C7 witness: the third file could not be loaded after two meshes had been
\* loaded, and nothing has been written.
C7_Witness ==
    /\ pc = "error"
    /\ error = "LoadError"
    /\ Len(meshes) = 2
    /\ ~written
    /\ output_file = << >>

\* The item of a link name in the dict.
MeshOf(items, link_name) ==
    items[CHOOSE i \in 1..Len(items) : items[i].link_name = link_name]

\* C9: the sanity loop changes no link's density, mass, inertia tensor or
\* centre of mass (nor the meshes or the model), and every link entry of the
\* written document carries the mass, tensor and centre of mass of the
\* estimation step: the mass is density * volume of the link's mesh.
C9_SanityIsDiagnostic ==
    [][ /\ pc = "sanity" =>
              UNCHANGED <<density, mass, inertia, centre_of_mass, meshes, sdf, out>>
        /\ \A i \in 1..Len(output_file') :
              LET e == output_file'[i]
                  m == MeshOf(meshes', e.name)
              IN  /\ e.mass = mass'[e.name]
                  /\ e.mass = fmul(density'[e.name], m.volume)
                  /\ e.inertia = [geometry |-> m.file, density |-> density'[e.name]]
                  /\ e.pose = [xyz |-> [geometry |-> m.file], rpy |-> <<0, 0, 0>>] ]_vars

\* C9 witness: a document of several links has been written although the
\* recomputed total, now in total_mass, differs from the target mass.
C9_Witness ==
    /\ pc = "done"
    /\ written
    /\ Len(output_file) >= 2
    /\ ~feq(total_mass, TargetMass)

\* The position of a kind of call in the order of the stages.
StageRank(op) ==
    CASE op = "listdir"  -> 0
      [] op = "load"     -> 1
      [] op = "volume"   -> 2
      [] op = "density"  -> 3
      [] op = "add_link" -> 4

\* For each link name of the directory, the first file in sorted order whose
\* name without extension it is.
FirstFiles ==
    LET stem == [f \in visual_mesh_dir |-> splitext(f)]
    IN  [link_name \in { stem[f] : f \in visual_mesh_dir } |->
            CHOOSE f \in visual_mesh_dir :
                /\ stem[f] = link_name
                /\ \A g \in visual_mesh_dir :
                      stem[g] = link_name => (g = f \/ LessName(f, g))]

\* The number of calls of one kind made so far.
CountOf(op) == Cardinality({ i \in 1..Len(calls) : calls[i].op = op })

====
